---- MODULE Spec2Model ----
(***************************************************************************)
(* Support-Agent console script (src/main.py).                             *)
(*                                                                         *)
(* Spec       the program: module load (API key check, client set-up),     *)
(*            main()'s prompt loop, and the streamed agent run it awaits.  *)
(* SpecUnits  the tool functions, the is_enabled predicate and the output  *)
(*            guardrail applied to user contexts drawn from a bounded set. *)
(*                                                                         *)
(* Python's None is the empty tuple, a present value v is <<v>>.           *)
(* Strings are TLA+ strings; lower() and `in` work on their characters.    *)
(***************************************************************************)
EXTENDS Integers, Sequences, FiniteSets, TLC

VARIABLES
    pc,              \* position of the single thread of control
    environ,         \* process environment after load_dotenv(): None or <<value>>
    GEMINI_API_KEY,  \* module global, line 22
    provider,        \* AsyncOpenAI client, line 26: None or <<[api_key |-> ...]>>
    user_context,    \* the UserInfo object of main(), line 168: None or <<record>>
    prompt,          \* local of main(), line 174: None or <<string>>
    nread,           \* number of input() calls that have returned
    result,          \* RunResultStreaming in flight, line 191: None or <<record>>
    call,            \* last callback the framework made during the latest run
    outcome,         \* how the last request ended (which branch of lines 199-215)
    stdout           \* last line printed

vars == <<pc, environ, GEMINI_API_KEY, provider, user_context, prompt, nread,
          result, call, outcome, stdout>>

None == <<>>
Some(v) == <<v>>
Val(o) == o[1]

----------------------------------------------------------------------------
(* Bounds *)

MaxFrags == 1      \* a prompt is a concatenation of at most MaxFrags fragments
MaxPrompts == 2    \* input() calls that return, per run of the program

----------------------------------------------------------------------------
(* Strings *)

Upper == "ABCDEFGHIJKLMNOPQRSTUVWXYZ"
LowerAlpha == "abcdefghijklmnopqrstuvwxyz"

CharAt(s, i) == SubSeq(s, i, i)

\* the lower-case letter of each upper-case letter
ToLower ==
    [ c \in { CharAt(Upper, i) : i \in 1..Len(Upper) } |->
        CharAt(LowerAlpha, CHOOSE i \in 1..Len(Upper) : CharAt(Upper, i) = c) ]

\* str.lower() on one character (ASCII letters; the prompts use no others)
LowerChar(c) == IF c \in DOMAIN ToLower THEN ToLower[c] ELSE c

RECURSIVE lower(_)
lower(s) ==
    IF Len(s) = 0 THEN ""
    ELSE LowerChar(CharAt(s, 1)) \o lower(SubSeq(s, 2, Len(s)))

\* Python's `sub in s` for strings
In(sub, s) ==
    \E i \in 0..(Len(s) - Len(sub)) : SubSeq(s, i + 1, i + Len(sub)) = sub

Fragments ==
    { "I need a refund", "ReFund the SERVICE", "My service keeps crashing",
      "ERROR", "technical", "Restart", "re", "start",
      "How much is a notebook?", "quit", "QuIt", " " }

RECURSIVE Concats(_)
Concats(n) ==
    IF n = 0 THEN {""}
    ELSE LET shorter == Concats(n - 1)
         IN  shorter \cup { s \o f : s \in shorter, f \in Fragments }

Prompts == Concats(MaxFrags)

----------------------------------------------------------------------------
(* Module load, lines 21-40 *)

Environments == { None, Some(""), Some("AIza-key") }

\* Python truthiness of an Optional[str]: None and "" are falsy
Truthy(o) == o # None /\ Val(o) # ""

\* faulty variant: `is None` instead of `not`, so "" passes
KeyMissing_NoneOnly(key) == key = None

\* `not GEMINI_API_KEY`, line 23
KeyMissing(key) == ~Truthy(key)

----------------------------------------------------------------------------
(* Data and tools, lines 43-78 *)

\* faulty variant: the literal of line 168 with is_premium=True
UserInfo_Premium == [name |-> "Jane Smith", is_premium |-> TRUE, issue_type |-> None]

\* UserInfo(name="Jane Smith", is_premium=False), line 168; issue_type defaults to None
NewUserInfo == [name |-> "Jane Smith", is_premium |-> FALSE, issue_type |-> None]

\* stationary_items, lines 58-64
stationary_items ==
    << [name |-> "pencil", price |-> 250, quantity |-> 140,
        description |-> "Pencil is available in just 2 colors"],
       [name |-> "eraser", price |-> 29, quantity |-> 50,
        description |-> "We have Dollar brand of eraser only"],
       [name |-> "notebook", price |-> 290, quantity |-> 20,
        description |-> "We have 500, 600, or 900 pages notebook available only"] >>

RefusalMessage == "Error: Refunds are only available for premium users."

\* faulty variant: the premium test of line 70 left out
refund_tool_NoGate(ctx) == "Refund processed for " \o ctx.name \o " (Premium user)."

\* faulty variant: a literal name instead of wrapper.context.name
refund_tool_FixedName(ctx) ==
    IF ~ctx.is_premium
    THEN RefusalMessage
    ELSE "Refund processed for Jane Smith (Premium user)."

\* refund_tool, lines 68-72; ctx is wrapper.context
refund_tool(ctx) ==
    IF ~ctx.is_premium
    THEN RefusalMessage
    ELSE "Refund processed for " \o ctx.name \o " (Premium user)."

\* restart_service, lines 76-78
restart_service(ctx) == "Service restarted for " \o ctx.name \o "."

\* The objects the framework may hand to is_enabled as its second argument.
\* A RunContextWrapper carries the user context in .context and has no
\* is_premium attribute of its own; an Agent is neither class.
ArgKinds == { "UserInfo", "RunContextWrapper", "Agent" }

AsArg(kind, ctx) ==
    IF kind = "UserInfo"
    THEN [cls |-> "UserInfo", is_premium |-> ctx.is_premium]
    ELSE IF kind = "RunContextWrapper"
    THEN [cls |-> "RunContextWrapper", context |-> ctx]
    ELSE [cls |-> "Agent"]

\* The is_enabled lambda of refund_tool, line 67:
\*   isinstance(context, (RunContextWrapper, UserInfo)) and context.is_premium
\* "True" / "False" / "AttributeError" (attribute lookup on an object without it)
is_enabled(context) ==
    IF context.cls \in { "RunContextWrapper", "UserInfo" }
    THEN IF "is_premium" \in DOMAIN context
         THEN (IF context.is_premium THEN "True" ELSE "False")
         ELSE "AttributeError"
    ELSE "False"

----------------------------------------------------------------------------
(* Output guardrail, lines 81-123 *)

\* TechnicalGuardrailOutput, lines 81-85 (reasoning and expected_agent are free text)
Verdicts ==
    [ is_correct_routing : BOOLEAN, restart_service_called : BOOLEAN ]

\* faulty variant: `and` for the `or` of line 117
technical_guardrail_And(ctx, verdict) ==
    LET user_query_issue_type ==
            IF ctx # None THEN Val(ctx).issue_type ELSE Some("unknown")
    IN  [ output_info |-> verdict,
          tripwire_triggered |->
              /\ user_query_issue_type = Some("technical")
              /\ ~verdict.is_correct_routing /\ ~verdict.restart_service_called ]

\* technical_guardrail, lines 102-123, given the guardrail agent's final_output.
\* ctx is ctx.context: None or <<UserInfo>> (a model instance is truthy).
technical_guardrail(ctx, verdict) ==
    LET user_query_issue_type ==
            IF ctx # None THEN Val(ctx).issue_type ELSE Some("unknown")
    IN  [ output_info |-> verdict,
          tripwire_triggered |->
              /\ user_query_issue_type = Some("technical")
              /\ (~verdict.is_correct_routing \/ ~verdict.restart_service_called) ]

----------------------------------------------------------------------------
(* main(), lines 167-217 *)

\* faulty variant: the comparison without .lower()
IsQuit_CaseSensitive(p) == p = "quit"

\* prompt.lower() == "quit", line 175
IsQuit(p) == lower(p) = "quit"

\* faulty variant: a keyword missing from the list
Keywords_NoRestart == { "service", "error", "technical" }

\* the keyword list of line 182
Keywords == { "service", "error", "technical", "restart" }

\* faulty variant: the keyword test ahead of the "refund" test
UpdateIssueType_TechnicalFirst(ctx, p) ==
    LET lowered == lower(p) IN
    IF \E keyword \in Keywords : In(keyword, lowered)
    THEN [ctx EXCEPT !.issue_type = Some("technical")]
    ELSE IF In("refund", lowered)
    THEN [ctx EXCEPT !.issue_type = Some("billing")]
    ELSE [ctx EXCEPT !.issue_type = Some("product")]

\* faulty variant: no else branch, the previous label is kept
UpdateIssueType_NoElse(ctx, p) ==
    LET lowered == lower(p) IN
    IF In("refund", lowered)
    THEN [ctx EXCEPT !.issue_type = Some("billing")]
    ELSE IF \E keyword \in Keywords : In(keyword, lowered)
    THEN [ctx EXCEPT !.issue_type = Some("technical")]
    ELSE ctx

\* the if / elif / else of lines 180-185, acting on the context object
UpdateIssueType(ctx, p) ==
    LET lowered == lower(p) IN
    IF In("refund", lowered)
    THEN [ctx EXCEPT !.issue_type = Some("billing")]
    ELSE IF \E keyword \in Keywords : In(keyword, lowered)
    THEN [ctx EXCEPT !.issue_type = Some("technical")]
    ELSE [ctx EXCEPT !.issue_type = Some("product")]

Init ==
    /\ pc = "load"
    /\ environ \in Environments
    /\ GEMINI_API_KEY = None
    /\ provider = None
    /\ user_context = None
    /\ prompt = None
    /\ nread = 0
    /\ result = None
    /\ call = None
    /\ outcome = "none"
    /\ stdout = "none"

\* Lines 21-171, run without a pause: read the key and abort if it is missing;
\* else build the client, model, run configuration and agents, enter main(),
\* create the user context and print the banner.
Startup ==
    /\ pc = "load"
    /\ GEMINI_API_KEY' = environ
    /\ IF KeyMissing(environ)
       THEN /\ pc' = "aborted"
            /\ outcome' = "ValueError"
            /\ UNCHANGED <<provider, user_context, stdout>>
       ELSE /\ pc' = "input"
            /\ provider' = Some([api_key |-> Val(environ)])
            /\ user_context' = Some(NewUserInfo)
            /\ stdout' = "Type 'quit' to exit."
            /\ UNCHANGED outcome
    /\ UNCHANGED <<environ, prompt, nread, result, call>>

\* One pass of the loop from input() to the first await of the stream,
\* lines 174-201.
LoopIteration(p) ==
    /\ pc = "input"
    /\ nread < MaxPrompts
    /\ prompt' = Some(p)
    /\ nread' = nread + 1
    /\ IF IsQuit(p)
       THEN /\ stdout' = "Exiting chat. Goodbye!"
            /\ pc' = "exited"
            /\ UNCHANGED <<user_context, result, call>>
       ELSE /\ user_context' = Some(UpdateIssueType(Val(user_context), p))
            /\ result' = Some([ input |-> p, is_complete |-> FALSE,
                                final_output |-> None ])
            /\ call' = None
            /\ stdout' = "Agent: "
            /\ pc' = "streaming"
    /\ UNCHANGED <<environ, GEMINI_API_KEY, provider, outcome>>

\* input() at end of file raises EOFError outside any try, line 174
InputEOF ==
    /\ pc = "input"
    /\ pc' = "crashed"
    /\ outcome' = "EOFError"
    /\ UNCHANGED <<environ, GEMINI_API_KEY, provider, user_context, prompt,
                   nread, result, call, stdout>>

\* A text delta event arrives and is printed, lines 201-203.  (Events of any
\* other type are consumed without effect.)
StreamDelta ==
    /\ pc = "streaming"
    /\ stdout' = "delta"
    /\ UNCHANGED <<pc, environ, GEMINI_API_KEY, provider, user_context, prompt,
                   nread, result, call, outcome>>

\* The tools the framework may invoke for the context: refund_tool only when
\* its is_enabled predicate is true (line 67), the other two always.
EnabledTools(ctx) ==
    { "stationary_items", "restart_service" } \cup
    { t \in { "refund_tool" } :
        \E kind \in ArgKinds : is_enabled(AsArg(kind, ctx)) = "True" }

ToolResult(tool, ctx) ==
    IF tool = "refund_tool" THEN [fn |-> tool, result |-> refund_tool(ctx)]
    ELSE IF tool = "restart_service" THEN [fn |-> tool, result |-> restart_service(ctx)]
    ELSE [fn |-> tool, result |-> stationary_items]

\* During the run the framework invokes one of the enabled tools.
ToolCall(tool) ==
    /\ pc = "streaming"
    /\ tool \in EnabledTools(Val(user_context))
    /\ call' = Some(ToolResult(tool, Val(user_context)))
    /\ UNCHANGED <<pc, environ, GEMINI_API_KEY, provider, user_context, prompt,
                   nread, result, outcome, stdout>>

FinalOutputs == { "", "Here is the answer." }

\* The agent produces its final output; the framework runs the output
\* guardrail on it (lines 102-123).  A tripped wire surfaces from
\* stream_events() as OutputGuardrailTripwireTriggered, caught at line 211;
\* otherwise the stream ends and lines 206-210 print the final output.
\* Either way line 217 follows and the loop returns to input().
RunCompletes(out, verdict) ==
    /\ pc = "streaming"
    /\ LET g == technical_guardrail(user_context, verdict)
       IN  /\ call' = Some([ fn |-> "technical_guardrail",
                             issue_type |-> Val(user_context).issue_type,
                             result |-> g ])
           /\ IF g.tripwire_triggered
              THEN /\ outcome' = "OutputGuardrailTripwireTriggered"
                   /\ result' = Some([Val(result) EXCEPT !.is_complete = TRUE])
              ELSE /\ outcome' = IF out # "" THEN "Final Response"
                                 ELSE "No final output received."
                   /\ result' = Some([Val(result) EXCEPT !.is_complete = TRUE,
                                                         !.final_output = Some(out)])
    /\ stdout' = "=== Request Complete ==="
    /\ pc' = "input"
    /\ UNCHANGED <<environ, GEMINI_API_KEY, provider, user_context, prompt, nread>>

\* faulty variant: no `except Exception`, the exception leaves main()
RunFails_Uncaught ==
    /\ pc = "streaming"
    /\ outcome' = "Exception"
    /\ result' = Some([Val(result) EXCEPT !.is_complete = TRUE])
    /\ pc' = "crashed"
    /\ UNCHANGED <<environ, GEMINI_API_KEY, provider, user_context, prompt,
                   nread, call, stdout>>

\* Any other exception surfaces from stream_events() (a failed model call, a
\* failed tool, a failed guardrail agent run at line 108) and is caught at
\* line 214; line 217 follows.
RunFails ==
    /\ pc = "streaming"
    /\ outcome' = "Exception"
    /\ result' = Some([Val(result) EXCEPT !.is_complete = TRUE])
    /\ stdout' = "=== Request Complete ==="
    /\ pc' = "input"
    /\ UNCHANGED <<environ, GEMINI_API_KEY, provider, user_context, prompt,
                   nread, call>>

Next ==
    \/ Startup
    \/ \E p \in Prompts : LoopIteration(p)
    \/ InputEOF
    \/ StreamDelta
    \/ \E tool \in { "stationary_items", "restart_service", "refund_tool" } : ToolCall(tool)
    \/ \E out \in FinalOutputs, verdict \in Verdicts : RunCompletes(out, verdict)
    \/ RunFails

Spec == Init /\ [][Next]_vars

----------------------------------------------------------------------------
(* The tools, is_enabled and the guardrail applied to arbitrary contexts *)

Names == { "Jane Smith", "Bob" }
IssueTypes == { None, Some("billing"), Some("technical"), Some("product") }

UnitContexts ==
    { None } \cup
    { Some(c) : c \in [ name : Names, is_premium : BOOLEAN, issue_type : IssueTypes ] }

InitUnits ==
    /\ pc = "unit"
    /\ environ = Some("AIza-key")
    /\ GEMINI_API_KEY = environ
    /\ provider = Some([api_key |-> Val(environ)])
    /\ user_context \in UnitContexts
    /\ prompt = None
    /\ nread = 0
    /\ result = None
    /\ call = None
    /\ outcome = "none"
    /\ stdout = "none"

UnitFrame ==
    UNCHANGED <<pc, environ, GEMINI_API_KEY, provider, user_context, prompt,
                nread, result, outcome, stdout>>

\* A tool function is invoked with a wrapper around the context.
UnitTool(tool) ==
    /\ pc = "unit"
    /\ user_context # None
    /\ call' = Some(ToolResult(tool, Val(user_context)))
    /\ UnitFrame

\* The framework evaluates refund_tool's is_enabled predicate.
UnitIsEnabled(kind) ==
    /\ pc = "unit"
    /\ user_context # None
    /\ call' = Some([ fn |-> "is_enabled", kind |-> kind,
                      result |-> is_enabled(AsArg(kind, Val(user_context))) ])
    /\ UnitFrame

\* The output guardrail is evaluated with the guardrail agent's verdict.
UnitGuardrail(verdict) ==
    /\ pc = "unit"
    /\ call' = Some([ fn |-> "technical_guardrail",
                      result |-> technical_guardrail(user_context, verdict) ])
    /\ UnitFrame

NextUnits ==
    \/ \E tool \in { "stationary_items", "restart_service", "refund_tool" } : UnitTool(tool)
    \/ \E kind \in ArgKinds : UnitIsEnabled(kind)
    \/ \E verdict \in Verdicts : UnitGuardrail(verdict)

SpecUnits == InitUnits /\ [][NextUnits]_vars

----------------------------------------------------------------------------
(* Properties *)

\* What the properties call the lowered text of the prompt last read
Lowered == lower(Val(prompt))
NonQuitPrompt == prompt # None /\ Lowered # "quit"
TechnicalWords == { "service", "error", "technical", "restart" }
HasTechnicalWord(s) == \E w \in TechnicalWords : In(w, s)
IssueType == Val(user_context).issue_type

\* The label the specification assigns to a prompt
Classification(p) ==
    IF In("refund", lower(p)) THEN "billing"
    ELSE IF HasTechnicalWord(lower(p)) THEN "technical"
    ELSE "product"

\* C1: every prompt other than the quit sentinel whose lowered text contains
\* "refund" is given issue type "billing", also when it contains one of the
\* technical keywords.
C1_RefundIsBilling ==
    (NonQuitPrompt /\ In("refund", Lowered)) => IssueType = Some("billing")

C1_Witness ==
    /\ pc = "streaming"
    /\ In("refund", Lowered) /\ HasTechnicalWord(Lowered)
    /\ Val(prompt) # Lowered
    /\ IssueType = Some("billing")

\* C2: a prompt other than the quit sentinel without "refund" is "technical"
\* exactly when its lowered text contains one of the four keywords and
\* "product" otherwise; every such prompt leaves one of the three labels.
C2_TechnicalOrProduct ==
    NonQuitPrompt =>
        /\ IssueType \in { Some("billing"), Some("technical"), Some("product") }
        /\ ~In("refund", Lowered) =>
              /\ (IssueType = Some("technical")) <=> HasTechnicalWord(Lowered)
              /\ (IssueType = Some("product")) <=> ~HasTechnicalWord(Lowered)

C2_Witness ==
    /\ pc = "streaming"
    /\ ~In("refund", Lowered) /\ In("restart", Lowered)
    /\ Val(prompt) # Lowered
    /\ IssueType = Some("technical")

\* C3: for a context that is not premium, refund_tool returns exactly the
\* refusal message and no processed-refund message; is_enabled is true only
\* for a premium context.
C3_NonPremiumRefused ==
    call # None =>
        /\ (Val(call).fn = "refund_tool" /\ ~Val(user_context).is_premium) =>
              /\ Val(call).result = "Error: Refunds are only available for premium users."
              /\ ~In("Refund processed", Val(call).result)
        /\ (Val(call).fn = "is_enabled" /\ Val(call).result = "True") =>
              Val(user_context).is_premium

C3_Witness ==
    /\ call # None /\ Val(call).fn = "refund_tool"
    /\ ~Val(user_context).is_premium
    /\ Val(call).result = "Error: Refunds are only available for premium users."

\* C4: for a premium context, refund_tool returns the confirmation
\* "Refund processed for <name> (Premium user)." with the context's name, and
\* not the refusal message.
C4_PremiumProcessed ==
    (call # None /\ Val(call).fn = "refund_tool" /\ Val(user_context).is_premium) =>
        /\ Val(call).result =
              "Refund processed for " \o Val(user_context).name \o " (Premium user)."
        /\ In(Val(user_context).name, Val(call).result)
        /\ Val(call).result # "Error: Refunds are only available for premium users."

C4_Witness ==
    /\ call # None /\ Val(call).fn = "refund_tool"
    /\ Val(user_context).is_premium
    /\ Val(user_context).name = "Bob"
    /\ In("Bob", Val(call).result)

\* C5: a prompt that is "quit" in any letter case ends the loop: that step
\* assigns no issue type and starts no run, and nothing happens afterwards.
C5_QuitTerminates ==
    [][ /\ (nread' = nread + 1 /\ lower(Val(prompt')) = "quit") =>
              /\ pc' = "exited"
              /\ user_context' = user_context
              /\ result' = result
              /\ call' = call
        /\ pc = "exited" => UNCHANGED vars ]_vars

C5_Witness ==
    /\ pc = "exited"
    /\ nread >= 2
    /\ Val(prompt) # "quit"
    /\ outcome # "none"

\* C6: a request that fails, by the guardrail or by any other exception, is
\* caught: the step ends with the "Request Complete" line at the next
\* input(), and the process goes on.
C6_FailureIsCaught ==
    [][ (/\ pc = "streaming" /\ pc' # "streaming"
         /\ outcome' \in { "OutputGuardrailTripwireTriggered", "Exception" }) =>
            /\ pc' = "input"
            /\ stdout' = "=== Request Complete ==="
            /\ nread' = nread /\ prompt' = prompt ]_vars

C6_Witness ==
    /\ pc = "streaming"
    /\ nread >= 2
    /\ outcome = "Exception"

\* C7: with GEMINI_API_KEY missing or empty, start-up aborts with the
\* ValueError before the client is built; no prompt is read and no run starts.
C7_MissingKeyAborts ==
    (environ = None \/ environ = Some("")) =>
        /\ pc \in { "load", "aborted" }
        /\ pc = "aborted" => outcome = "ValueError"
        /\ provider = None
        /\ nread = 0 /\ prompt = None /\ result = None /\ call = None

C7_Witness ==
    /\ pc = "aborted"
    /\ environ = Some("")
    /\ outcome = "ValueError"

\* C8: the user context is created once, at start-up, as ("Jane Smith", not
\* premium); afterwards only issue_type changes, in the step that reads a
\* prompt other than quit and in no other step; name and the premium flag
\* keep their values.
C8_ContextFrame ==
    [][ /\ user_context' # None =>
              /\ Val(user_context').name = "Jane Smith"
              /\ Val(user_context').is_premium = FALSE
        /\ (user_context = None /\ user_context' # None) =>
              /\ pc = "load"
              /\ Val(user_context').issue_type = None
        /\ user_context # None =>
              /\ user_context' # None
              /\ IF nread' = nread + 1 /\ lower(Val(prompt')) # "quit"
                 THEN Val(user_context').issue_type # None
                 ELSE user_context' = user_context ]_vars

C8_Witness ==
    /\ nread >= 2
    /\ pc = "input"
    /\ user_context = Some([ name |-> "Jane Smith", is_premium |-> FALSE,
                             issue_type |-> Some("technical") ])

\* C9: the guardrail sets its tripwire exactly when the issue type is
\* "technical" and the verdict has is_correct_routing false or
\* restart_service_called false; never for another issue type or no context.
C9_TripwireIff ==
    (call # None /\ Val(call).fn = "technical_guardrail") =>
        LET g == Val(call).result
            technical ==
                user_context # None /\ Val(user_context).issue_type = Some("technical")
        IN  /\ g.tripwire_triggered <=>
                  /\ technical
                  /\ (g.output_info.is_correct_routing = FALSE
                      \/ g.output_info.restart_service_called = FALSE)
            /\ ~technical => ~g.tripwire_triggered

C9_Witness ==
    /\ call # None /\ Val(call).fn = "technical_guardrail"
    /\ Val(call).result.tripwire_triggered
    /\ Val(call).result.output_info.is_correct_routing
    /\ ~Val(call).result.output_info.restart_service_called

\* C10: while a run is in flight the context's issue type is the
\* classification of that run's input, and the guardrail reads that value;
\* a prompt is read only when no run is in flight.
C10_RunSeesOwnClassification ==
    [][ /\ pc' = "streaming" =>
              /\ result' # None /\ ~Val(result').is_complete
              /\ Val(user_context').issue_type =
                    Some(Classification(Val(result').input))
        /\ (pc = "streaming" /\ call' # None /\ Val(call').fn = "technical_guardrail") =>
              Val(call').issue_type = Some(Classification(Val(result).input))
        /\ nread' # nread =>
              /\ pc = "input"
              /\ result = None \/ Val(result).is_complete ]_vars

C10_Witness ==
    /\ pc = "input"
    /\ nread >= 2
    /\ call # None /\ Val(call).fn = "technical_guardrail"
    /\ Val(call).issue_type = Some("product")
    /\ outcome = "Final Response"
====
